---- MODULE Spec2Model ----
(***************************************************************************)
(* Seat reservation engine of the theater application: the booking         *)
(* validator, the availability cache, the price calculator and the two     *)
(* booking handlers (BookingViewSet.booking and book_seats), run by        *)
(* concurrent request workers against one database and one cache; and the  *)
(* admin side that fills the catalog: creation of a screen with its seats, *)
(* creation of a show with its prices and dated rows, the seat layout.     *)
(*                                                                         *)
(* Time is counted in whole hours since midnight of day 0; a calendar date *)
(* is a day number.  Datetimes are naive (timezone.now() and               *)
(* datetime.combine are subtracted directly in utils.py:178-179).          *)
(* A QuerySet is modelled by the set of ids it evaluates to at the point   *)
(* where the code builds it.                                               *)
(***************************************************************************)
EXTENDS Integers, Sequences, FiniteSets, TLC

VARIABLES
    now,                \* timezone.now(), in hours
    cache,              \* django cache: cache key -> stored value
    bookings,           \* Booking table, in id order
    booked_show_detail, \* BookedShowDetail table: <<show, date>> -> available_seats
    pc,                 \* position of each request worker in its handler
    req,                \* the request each worker is handling
    err,                \* the error a worker's request ended with
    total,              \* total_price computed by a worker
    vcall,              \* a direct call of a utils.py function and its result
    catalog,            \* Screen, ScreenSeatTypesMapping, Seat, ShowDetail and
                        \* ShowSeatPrice tables, each in id order
    admin               \* the admin request being handled and its position

vars == <<now, cache, bookings, booked_show_detail, pc, req, err, total, vcall,
          catalog, admin>>

-----------------------------------------------------------------------------
(* constants.py *)

MIN_SEATS_PER_BOOKING == 1
MAX_SEATS_PER_BOOKING == 10
BOOKING_WINDOW_DAYS == 30
MIN_BOOKING_HOURS_BEFORE == 2
HoursPerDay == 24

(* Bounds of the model *)

NumReq == 2             \* concurrent request workers
MaxTicks == 1           \* hours the clock may advance
MaxTestBookings == 1    \* Booking rows created with a booked_show
MaxCount == 11          \* longest seat list handed to the validator directly
MaxPriceLen == 2        \* longest seat list handed to the price calculator directly
MaxScreens == 1         \* screens added to the catalog
MaxLayoutCalls == 2     \* calls of get_show_seat_layout
MaxShows == 1           \* shows added to the catalog
MaxSpan == 2            \* days between the first and the last date of a range

-----------------------------------------------------------------------------
(* Python values of a seat id: the API hands ints, request.POST hands str.  *)
(* PyStr(n) is the decimal text of n; PyStr(0) stands for the empty string.     *)

PyInt(n) == <<"int", n>>
PyStr(n) == <<"str", n>>

\* "a,b".split(","): one token per selected seat, and [""] for the empty text
Split(selected) ==
    IF selected = <<>> THEN <<PyStr(0)>>
    ELSE [i \in 1..Len(selected) |-> PyStr(selected[i])]

\* x in queryset.values_list("id", flat=True): an int id equals no str
Contains(ids, x) == x[1] = "int" /\ x[2] \in ids

\* the primary key a value is coerced to by id__in and by seats.set
Pk(x) == x[2]

Range(s) == {s[i] : i \in 1..Len(s)}

-----------------------------------------------------------------------------
(* Catalog: two screens, one show on each.                                 *)

Screens == {1, 2}
ScreenSeats(screen) == IF screen = 1 THEN 1..12 ELSE 13..14
Seat == UNION {ScreenSeats(s) : s \in Screens}      \* Seat.objects
SeatType(seat) ==
    IF seat \in 1..4 THEN "PLATINUM" ELSE IF seat \in 5..12 THEN "GOLD" ELSE "SILVER"
TotalSeat(screen) == Cardinality(ScreenSeats(screen))

Shows == {1, 2}
ShowDetail(show) ==
    IF show = 1
    THEN [screen |-> 1, start_time |-> 11, start_date |-> 1, end_date |-> 2]
    ELSE [screen |-> 2, start_time |-> 0, start_date |-> 1, end_date |-> 2]
ShowSeatPrice(show) ==
    IF show = 1 THEN [PLATINUM |-> 3, GOLD |-> 2] ELSE [SILVER |-> 1]

Dates == 0..3
Today == ShowDetail(1).start_date      \* the day the shows open
Tomorrow == Today + 1

-----------------------------------------------------------------------------
(* ShowDetailSerializer.save: one BookedShowDetail row per date of the range *)

\* variant: the last date of the range left out
DayCount_exclusive(start_date, end_date) == end_date - start_date

\* (show_end_date - show_start_date).days + 1
DayCount(start_date, end_date) == (end_date - start_date) + 1

SaveRows(show) ==
    LET sd == ShowDetail(show)
        available_seats == TotalSeat(sd.screen)
    IN [k \in {<<show, sd.start_date + day>> :
                 day \in 0..(DayCount(sd.start_date, sd.end_date) - 1)} |-> available_seats]

Merge(f, g) == [k \in DOMAIN f \cup DOMAIN g |-> IF k \in DOMAIN f THEN f[k] ELSE g[k]]

-----------------------------------------------------------------------------
(* The catalog tables.  A row's id is its index in its table.              *)

EmptyCatalog ==
    [screens |-> <<>>, seat_types |-> <<>>, seats |-> <<>>, shows |-> <<>>, prices |-> <<>>]

EmptyDict == <<>>                                   \* the dict {}

\* order_seat_types: the list after the first k seat types are placed;
\* raised tells that an order indexed outside the list (IndexError).  Order
\* 0 indexes the last element, as the index -1 does
RECURSIVE PlacedAfter(_, _)
PlacedAfter(seat_types, k) ==
    IF k = 0
    THEN [raised |-> FALSE, list |-> [i \in 1..Len(seat_types) |-> EmptyDict]]
    ELSE LET placed == PlacedAfter(seat_types, k - 1)
             n == Len(seat_types)
             index == seat_types[k].order - 1
         IN IF placed.raised \/ index < -n \/ index > n - 1
            THEN [raised |-> TRUE, list |-> placed.list]
            ELSE [raised |-> FALSE,
                  list |-> [placed.list EXCEPT
                              ![(IF index < 0 THEN index + n ELSE index) + 1] =
                                  seat_types[k]]]

order_seat_types(seat_types) == PlacedAfter(seat_types, Len(seat_types))

\* the value of rows when the loop of create_screen_with_seats reaches the
\* k-th seat type
RECURSIVE RowsAt(_, _)
RowsAt(seat_types, k) ==
    IF k = 1 THEN 1 ELSE RowsAt(seat_types, k - 1) + seat_types[k - 1].rows

\* the Seat rows created for the k-th seat type, in creation order
TypeSeats(seat_types, k, type_id) ==
    LET st == seat_types[k]
        rows == RowsAt(seat_types, k)
        count == IF st.rows > 0 /\ st.columns > 0 THEN st.rows * st.columns ELSE 0
    IN [n \in 1..count |->
          LET i == rows + ((n - 1) \div st.columns)
              j == (n - 1) % st.columns
          IN [seat_number |-> <<i, j>>, row |-> rows + i, col |-> j + 1,
              type |-> type_id]]

\* the Seat rows created for the first k seat types
RECURSIVE SeatsCreated(_, _, _)
SeatsCreated(seat_types, k, first_type) ==
    IF k = 0 THEN <<>>
    ELSE SeatsCreated(seat_types, k - 1, first_type)
            \o TypeSeats(seat_types, k, first_type + k)

\* total_seat after the first k seat types
RECURSIVE SumSeats(_, _)
SumSeats(seat_types, k) ==
    IF k = 0 THEN 0
    ELSE SumSeats(seat_types, k - 1) + seat_types[k].rows * seat_types[k].columns

\* the tables after create_screen_with_seats(screen_number, seat_types)
create_screen_with_seats(cat, screen_number, seat_types) ==
    LET screen == Len(cat.screens) + 1
        n == Len(seat_types)
    IN [cat EXCEPT
          !.screens = Append(@, [screen_number |-> screen_number,
                                 total_seat |-> SumSeats(seat_types, n)]),
          !.seat_types = @ \o [k \in 1..n |->
                                 [screen |-> screen, seat_type |-> seat_types[k].seat_type]],
          !.seats = @ \o SeatsCreated(seat_types, n, Len(cat.seat_types))]

\* ShowDetail.objects.create(**validated_data, available_seats=screen.total_seat)
AddShowDetail(cat, data) ==
    [cat EXCEPT !.shows = Append(@,
        [screen |-> data.screen, start_time |-> data.start_time,
         start_date |-> data.start_date, end_date |-> data.end_date,
         available_seats |-> cat.screens[data.screen].total_seat])]

\* ShowSeatPrice.objects.create(show_detail=show_detail, **show_price)
AddShowSeatPrice(cat, show, show_price) ==
    [cat EXCEPT !.prices = Append(@,
        [show_detail |-> show, seat_type |-> show_price.seat_type,
         price |-> show_price.price])]

RECURSIVE AddShowSeatPrices(_, _, _, _)
AddShowSeatPrices(cat, show, show_prices, k) ==
    IF k = 0 THEN cat
    ELSE AddShowSeatPrice(AddShowSeatPrices(cat, show, show_prices, k - 1),
                          show, show_prices[k])

\* the requests that provisioned the two screens and the two shows
InitialScreens ==
    <<[screen_number |-> 1,
       seat_types |-> <<[seat_type |-> "GOLD", rows |-> 2, columns |-> 4, order |-> 2],
                        [seat_type |-> "PLATINUM", rows |-> 1, columns |-> 4, order |-> 1]>>],
      [screen_number |-> 2,
       seat_types |-> <<[seat_type |-> "SILVER", rows |-> 1, columns |-> 2, order |-> 1]>>]>>

SeatTypeOrder == <<"PLATINUM", "GOLD", "SILVER">>

InitialShow(show) ==
    LET sd == ShowDetail(show)
        priced(seat_type) == seat_type \in DOMAIN ShowSeatPrice(show)
        types == SelectSeq(SeatTypeOrder, priced)
    IN [screen |-> sd.screen, start_time |-> sd.start_time,
        start_date |-> sd.start_date, end_date |-> sd.end_date,
        show_prices |-> [k \in 1..Len(types) |->
                           [seat_type |-> types[k], price |-> ShowSeatPrice(show)[types[k]]]]]

InitialCatalog ==
    LET s1 == create_screen_with_seats(EmptyCatalog, InitialScreens[1].screen_number,
                                       order_seat_types(InitialScreens[1].seat_types).list)
        s2 == create_screen_with_seats(s1, InitialScreens[2].screen_number,
                                       order_seat_types(InitialScreens[2].seat_types).list)
        d1 == AddShowDetail(s2, InitialShow(1))
        p1 == AddShowSeatPrices(d1, 1, InitialShow(1).show_prices,
                                Len(InitialShow(1).show_prices))
        d2 == AddShowDetail(p1, InitialShow(2))
    IN AddShowSeatPrices(d2, 2, InitialShow(2).show_prices,
                         Len(InitialShow(2).show_prices))

AdminIdle == [pc |-> "idle"]

-----------------------------------------------------------------------------
(* Booking rows.  booked_show is the BookedShowDetail a row points to, or   *)
(* Null.  show_date and by are history fields of the model: the date and    *)
(* the worker of the request that created the row.                          *)

Null == <<>>

\* Booking.objects.filter(showtime_id=show_id, booked_show__show_date=show_date)
\*        .values_list("seats", flat=True)
BookedSeats(show, show_date) ==
    UNION {bookings[i].seats :
             i \in {j \in 1..Len(bookings) :
                      /\ bookings[j].showtime = show
                      /\ bookings[j].booked_show # Null
                      /\ bookings[j].booked_show[2] = show_date}}

\* Booking.objects.filter(showtime=show).values_list("seats__id", flat=True):
\* the seats select_seats marks as booked and ShowDetailSerializer.get_seats
\* leaves out, whatever the date
ShowBookedSeats(show) ==
    UNION {bookings[i].seats : i \in {j \in 1..Len(bookings) : bookings[j].showtime = show}}

\* variant: filter(id__in=...) written for exclude(id__in=...)
AvailableQuery_filter(show, show_date) == Seat \cap BookedSeats(show, show_date)

\* Seat.objects.exclude(id__in=booked_seats)
AvailableQuery(show, show_date) == Seat \ BookedSeats(show, show_date)

CacheKey(show, show_date) == <<"available_seats", show, show_date>>

\* value returned by get_available_seats
get_available_seats(show, show_date) ==
    IF CacheKey(show, show_date) \in DOMAIN cache
    THEN cache[CacheKey(show, show_date)]
    ELSE AvailableQuery(show, show_date)

\* the cache after get_available_seats: a miss stores the computed set
CacheAfterGet(show, show_date) ==
    IF CacheKey(show, show_date) \in DOMAIN cache
    THEN cache
    ELSE Merge(cache, [k \in {CacheKey(show, show_date)} |->
                          AvailableQuery(show, show_date)])

-----------------------------------------------------------------------------
(* validate_booking_request *)

DateOf(t) == t \div HoursPerDay                       \* timezone.now().date()
Combine(show_date, start_time) == show_date * HoursPerDay + start_time

\* variant: the upper bound taken as exclusive
SeatCountOk_exclusive(seats) ==
    MIN_SEATS_PER_BOOKING <= Len(seats) /\ Len(seats) < MAX_SEATS_PER_BOOKING

\* variant: one seat more than the maximum let through
SeatCountOk_lenient(seats) ==
    MIN_SEATS_PER_BOOKING <= Len(seats) /\ Len(seats) <= MAX_SEATS_PER_BOOKING + 1

SeatCountOk(seats) ==
    MIN_SEATS_PER_BOOKING <= Len(seats) /\ Len(seats) <= MAX_SEATS_PER_BOOKING

\* variant: a show starting exactly at the limit is refused too
WindowExpired_inclusive(show, show_date, t) ==
    Combine(show_date, ShowDetail(show).start_time) - t <= MIN_BOOKING_HOURS_BEFORE

WindowExpired(show, show_date, t) ==
    Combine(show_date, ShowDetail(show).start_time) - t < MIN_BOOKING_HOURS_BEFORE

\* variant: today's date counted as past
PastDate_today(show_date, t) == show_date <= DateOf(t)

\* show_date < timezone.now().date()
PastDate(show_date, t) == show_date < DateOf(t)

\* variant: the cutoff rule evaluated before the seat count rule
PreCheck_windowFirst(seats, show, show_date, t) ==
    IF PastDate(show_date, t) THEN "past_show"
    ELSE IF WindowExpired(show, show_date, t) THEN "booking_window_expired"
    ELSE IF ~SeatCountOk(seats) THEN "invalid_seat_count"
    ELSE "ok"

\* the rules that read no availability (utils.py:172-180)
PreCheck(seats, show, show_date, t) ==
    IF ~SeatCountOk(seats) THEN "invalid_seat_count"
    ELSE IF PastDate(show_date, t) THEN "past_show"
    ELSE IF WindowExpired(show, show_date, t) THEN "booking_window_expired"
    ELSE "ok"

SeatsAvailable(seats, available) ==
    \A i \in 1..Len(seats) : Contains(available, seats[i])

\* the error validate_booking_request raises, "ok" when it returns
validate_booking_request(seats, show, show_date) ==
    LET e == PreCheck(seats, show, show_date, now)
    IN IF e # "ok" THEN e
       ELSE IF ~SeatsAvailable(seats, get_available_seats(show, show_date))
            THEN "seats_unavailable"
            ELSE "ok"

\* the cache after validate_booking_request
CacheAfterValidate(seats, show, show_date) ==
    IF PreCheck(seats, show, show_date, now) # "ok" THEN cache
    ELSE CacheAfterGet(show, show_date)

-----------------------------------------------------------------------------
(* calculate_total_price *)

SeatTypes == {"PLATINUM", "GOLD", "SILVER"}

\* variant: the price row's seat type compared as a row, equal to no label
PriceIn_rowCompare(prices, seat_type) == 0

\* next((p.price for p in prices if p.seat_type.seat_type == seat_type), 0)
PriceIn(prices, seat_type) ==
    IF seat_type \in DOMAIN prices THEN prices[seat_type] ELSE 0

\* total over the rows of Seat.objects.filter(id__in=seats)
RECURSIVE SumPrices(_, _)
SumPrices(rows, prices) ==
    IF rows = {} THEN 0
    ELSE LET s == CHOOSE y \in rows : TRUE
         IN PriceIn(prices, SeatType(s)) + SumPrices(rows \ {s}, prices)

\* the sum calculate_total_price returns when show_price_detail is prices
TotalPrice(seats, prices) ==
    SumPrices({s \in Seat : s \in {Pk(x) : x \in Range(seats)}}, prices)

calculate_total_price(seats, show) == TotalPrice(seats, ShowSeatPrice(show))

-----------------------------------------------------------------------------
(* Requests *)

FirstN(n) == [i \in 1..n |-> PyInt(i)]

ApiSeatLists ==
    {<<PyInt(1), PyInt(2)>>, <<PyInt(2), PyInt(3)>>, <<PyInt(3)>>,
     FirstN(MAX_SEATS_PER_BOOKING + 1), <<>>}

\* every seat list for tomorrow's show, one list for each other date
ApiRequests ==
    {r \in [path : {"api"}, show : {1}, date : Dates, seats : ApiSeatLists] :
        r.date = Tomorrow \/ r.seats = <<PyInt(1), PyInt(2)>>}

\* selected_seats of request.POST, before it is split
Selections == {<<>>, <<1, 2>>}

NoReq == [path |-> "none", show |-> 0, date |-> 0, seats |-> <<>>]
NoCall == [result |-> "none"]

Workers == 1..NumReq
NowInit == Today * HoursPerDay + 9

Init ==
    /\ now = NowInit
    /\ cache = <<>>
    /\ bookings = <<>>
    /\ booked_show_detail = Merge(SaveRows(1), SaveRows(2))
    /\ pc = [p \in Workers |-> "idle"]
    /\ req = [p \in Workers |-> NoReq]
    /\ err = [p \in Workers |-> "none"]
    /\ total = [p \in Workers |-> 0]
    /\ vcall = NoCall
    /\ catalog = InitialCatalog
    /\ admin = AdminIdle

\* workers are numbered in the order their requests arrive
CanStart(p) == pc[p] = "idle" /\ \A q \in Workers : q < p => pc[q] # "idle"

\* BookingViewSet.booking up to the validated data (views.py:189-197);
\* BookingSerializer.validate refuses an empty seat list
booking(p, r) ==
    /\ CanStart(p)
    /\ req' = [req EXCEPT ![p] = r]
    /\ IF r.seats = <<>>
       THEN /\ pc' = [pc EXCEPT ![p] = "rejected"]
            /\ err' = [err EXCEPT ![p] = "seats_required"]
       ELSE /\ pc' = [pc EXCEPT ![p] = "received"]
            /\ err' = err
    /\ UNCHANGED <<now, cache, bookings, booked_show_detail, total, vcall, catalog, admin>>

\* book_seats up to the split of selected_seats (views.py:271-276)
book_seats(p, show, selected) ==
    /\ CanStart(p)
    /\ req' = [req EXCEPT ![p] =
                 [path |-> "web", show |-> show, date |-> DateOf(now),
                  seats |-> Split(selected)]]
    /\ pc' = [pc EXCEPT ![p] = "received"]
    /\ UNCHANGED <<now, cache, bookings, booked_show_detail, err, total, vcall, catalog, admin>>

\* the show_date handed to validate_booking_request: book_seats hands today's
RequestDate(r) == IF r.path = "web" THEN DateOf(now) ELSE r.date

\* the row Booking.objects.create(user, showtime, total_amount) inserts and
\* seats.set fills: no booked_show is given
NewBooking(p) ==
    [by |-> p, showtime |-> req[p].show, booked_show |-> Null,
     show_date |-> req[p].date,
     seats |-> {Pk(x) : x \in Range(req[p].seats)},
     total_amount |-> total[p]]

\* variant: the Booking row is created before the request is validated
Validate_createFirst(p) ==
    /\ pc[p] = "received"
    /\ LET r == req[p]
           d == RequestDate(r)
           e == validate_booking_request(r.seats, r.show, d)
       IN /\ req' = [req EXCEPT ![p].date = d]
          /\ cache' = CacheAfterValidate(r.seats, r.show, d)
          /\ bookings' = Append(bookings, [NewBooking(p) EXCEPT !.seats = {}])
          /\ IF e = "ok"
             THEN /\ pc' = [pc EXCEPT ![p] = "validated"]
                  /\ err' = err
             ELSE /\ pc' = [pc EXCEPT ![p] = "rejected"]
                  /\ err' = [err EXCEPT ![p] = e]
    /\ UNCHANGED <<now, booked_show_detail, total, vcall, catalog, admin>>

\* variant: the validator's error is recorded and the handler goes on
Validate_swallow(p) ==
    /\ pc[p] = "received"
    /\ LET r == req[p]
           d == RequestDate(r)
           e == validate_booking_request(r.seats, r.show, d)
       IN /\ req' = [req EXCEPT ![p].date = d]
          /\ cache' = CacheAfterValidate(r.seats, r.show, d)
          /\ pc' = [pc EXCEPT ![p] = "validated"]
          /\ err' = IF e = "ok" THEN err ELSE [err EXCEPT ![p] = e]
    /\ UNCHANGED <<now, bookings, booked_show_detail, total, vcall, catalog, admin>>

\* the call of validate_booking_request (views.py:199, views.py:279)
Validate(p) ==
    /\ pc[p] = "received"
    /\ LET r == req[p]
           d == RequestDate(r)
           e == validate_booking_request(r.seats, r.show, d)
       IN /\ req' = [req EXCEPT ![p].date = d]
          /\ cache' = CacheAfterValidate(r.seats, r.show, d)
          /\ IF e = "ok"
             THEN /\ pc' = [pc EXCEPT ![p] = "validated"]
                  /\ err' = err
             ELSE /\ pc' = [pc EXCEPT ![p] = "rejected"]
                  /\ err' = [err EXCEPT ![p] = e]
    /\ UNCHANGED <<now, bookings, booked_show_detail, total, vcall, catalog, admin>>

\* the call of calculate_total_price (views.py:201, views.py:280)
Price(p) ==
    /\ pc[p] = "validated"
    /\ total' = [total EXCEPT ![p] = calculate_total_price(req[p].seats, req[p].show)]
    /\ pc' = [pc EXCEPT ![p] = "committing"]
    /\ UNCHANGED <<now, cache, bookings, booked_show_detail, req, err, vcall, catalog, admin>>

\* Booking.objects.create and booking.seats.set, made visible together when
\* the handler returns (views.py:203-208, views.py:282-288)
Commit(p) ==
    /\ pc[p] = "committing"
    /\ bookings' = Append(bookings, NewBooking(p))
    /\ pc' = [pc EXCEPT ![p] = "committed"]
    /\ UNCHANGED <<now, cache, booked_show_detail, req, err, total, vcall, catalog, admin>>

\* a Booking row that names its BookedShowDetail, as the test fixture
\* creates it (UtilsTestCase.create_test_booking)
TestSeatSets == {{1, 2}}
TestBookedShow == <<1, Tomorrow>>       \* the fixture's booked_show_detail
NumTestBookings == Cardinality({i \in 1..Len(bookings) : bookings[i].by = 0})

create_test_booking(seats, booked_show) ==
    /\ NumTestBookings < MaxTestBookings
    /\ bookings' = Append(bookings,
                     [by |-> 0, showtime |-> booked_show[1], booked_show |-> booked_show,
                      show_date |-> booked_show[2], seats |-> seats, total_amount |-> 0])
    /\ UNCHANGED <<now, cache, booked_show_detail, pc, req, err, total, vcall, catalog, admin>>

\* an hour passes: every entry is older than SHOW_CACHE_TIMEOUT (30 minutes)
Tick ==
    /\ now < NowInit + MaxTicks
    /\ now' = now + 1
    /\ cache' = <<>>
    /\ UNCHANGED <<bookings, booked_show_detail, pc, req, err, total, vcall, catalog, admin>>

\* an entry reaches its timeout
CacheExpire(k) ==
    /\ k \in DOMAIN cache
    /\ cache' = [j \in DOMAIN cache \ {k} |-> cache[j]]
    /\ UNCHANGED <<now, bookings, booked_show_detail, pc, req, err, total, vcall, catalog, admin>>

Next ==
    \/ \E p \in Workers, r \in ApiRequests : booking(p, r)
    \/ \E p \in Workers, s \in Selections : book_seats(p, 1, s)
    \/ \E p \in Workers : Validate(p)
    \/ \E p \in Workers : Price(p)
    \/ \E p \in Workers : Commit(p)
    \/ \E s \in TestSeatSets : create_test_booking(s, TestBookedShow)
    \/ Tick
    \/ \E k \in DOMAIN cache : CacheExpire(k)

Spec == Init /\ [][Next]_vars

-----------------------------------------------------------------------------
(* One booking attempt at a time, over a wide set of request inputs.        *)

\* the worker whose request arrives first
FirstWorker == {p \in Workers : \A q \in Workers : p <= q}

\* seat lists of every length up to MaxCount, lists that repeat an id
BSeatLists ==
    {FirstN(n) : n \in 0..MaxCount}
        \cup {<<PyInt(3)>>, <<PyInt(1), PyInt(1)>>,
              FirstN(MAX_SEATS_PER_BOOKING - 1) \o <<PyInt(1)>>}

\* yesterday to the day after tomorrow, and the first day past the
\* advance-booking window
BDates == Dates \cup {Today + BOOKING_WINDOW_DAYS + 1}

BRequests == [path : {"api"}, show : Shows, date : BDates, seats : BSeatLists]

NextB ==
    \/ \E p \in FirstWorker, r \in BRequests : booking(p, r)
    \/ \E p \in FirstWorker, s \in Selections : book_seats(p, 1, s)
    \/ \E p \in FirstWorker : Validate(p)
    \/ \E p \in FirstWorker : Price(p)
    \/ \E p \in FirstWorker : Commit(p)
    \/ \E s \in TestSeatSets : create_test_booking(s, TestBookedShow)

SpecB == Init /\ [][NextB]_vars

-----------------------------------------------------------------------------
(* Direct calls of validate_booking_request, as the unit tests make them.   *)

VNows == {Today * HoursPerDay + h : h \in 0..(HoursPerDay - 1)}

VSeatLists ==
    {FirstN(n) : n \in 0..MaxCount}
        \cup {<<PyInt(3)>>, <<PyInt(1), PyInt(1)>>, Split(<<>>), Split(<<1, 2>>)}

\* the cache is empty, or holds the entry computed before any booking
VCaches == {<<>>, [k \in {CacheKey(1, Tomorrow)} |-> Seat]}

InitV ==
    /\ now \in VNows
    /\ cache \in VCaches
    /\ bookings = <<>>
    /\ booked_show_detail = Merge(SaveRows(1), SaveRows(2))
    /\ pc = [p \in Workers |-> "idle"]
    /\ req = [p \in Workers |-> NoReq]
    /\ err = [p \in Workers |-> "none"]
    /\ total = [p \in Workers |-> 0]
    /\ vcall = NoCall
    /\ catalog = InitialCatalog
    /\ admin = AdminIdle

\* validate_booking_request(seats, show, show_date); available records the
\* set get_available_seats has for the call, booked the seats the Booking
\* table holds for the key at the call
CallValidate(seats, show, show_date) ==
    /\ vcall = NoCall
    /\ vcall' = [seats |-> seats, show |-> show, show_date |-> show_date, at |-> now,
                 available |-> get_available_seats(show, show_date),
                 booked |-> BookedSeats(show, show_date),
                 result |-> validate_booking_request(seats, show, show_date)]
    /\ cache' = CacheAfterValidate(seats, show, show_date)
    /\ UNCHANGED <<now, bookings, booked_show_detail, pc, req, err, total, catalog, admin>>

NextV ==
    \/ \E seats \in VSeatLists, show \in Shows, d \in Dates : CallValidate(seats, show, d)
    \/ \E s \in TestSeatSets : create_test_booking(s, TestBookedShow)

SpecV == InitV /\ [][NextV]_vars

-----------------------------------------------------------------------------
(* Direct calls of calculate_total_price, as the unit test makes them, for  *)
(* a show whose show_price_detail is the table prices.                      *)

PSeats == {1, 2, 5, 13}         \* two PLATINUM seats, a GOLD and a SILVER one
RECURSIVE SeqsUpTo(_, _)
SeqsUpTo(S, n) ==
    IF n = 0 THEN {<<>>}
    ELSE LET shorter == SeqsUpTo(S, n - 1)
         IN shorter \cup {Append(q, x) : q \in shorter, x \in S}
PSeatLists == {[i \in 1..Len(q) |-> PyInt(q[i])] : q \in SeqsUpTo(PSeats, MaxPriceLen)}

\* every table with at most one price per seat type
PriceTables == UNION {[T -> 1..2] : T \in SUBSET SeatTypes}

\* calculate_total_price has no raise: raised, the exception of the call, is
\* always "none", and result is the total it returns
CallPrice(seats, prices) ==
    /\ vcall = NoCall
    /\ vcall' = [seats |-> seats, prices |-> prices, raised |-> "none",
                 result |-> TotalPrice(seats, prices)]
    /\ UNCHANGED <<now, cache, bookings, booked_show_detail, pc, req, err, total, catalog, admin>>

NextP == \E seats \in PSeatLists, prices \in PriceTables : CallPrice(seats, prices)

SpecP == Init /\ [][NextP]_vars

-----------------------------------------------------------------------------
(* get_show_seat_layout, called as the unit test and select_seats call it,  *)
(* on the screens of the catalog and on screens ScreenViewSet.create adds.  *)

Max(S) == CHOOSE x \in S : \A y \in S : y <= x
Min(S) == CHOOSE x \in S : \A y \in S : x <= y

\* a set of ids as the list a query without order_by yields them: by id
RECURSIVE ById(_)
ById(S) == IF S = {} THEN <<>> ELSE <<Min(S)>> \o ById(S \ {Min(S)})

\* variant: one key for every screen
LayoutKey_shared(screen_id) == <<"seat_layout">>

LayoutKey(screen_id) == <<"seat_layout", screen_id>>

\* the dict the loop over ScreenSeatTypesMapping.objects.filter(screen_id=...)
\* builds: one entry per label, the last mapping of a label overwriting
LayoutQuery(cat, screen_id) ==
    LET screen_seats == {t \in 1..Len(cat.seat_types) : cat.seat_types[t].screen = screen_id}
        labels == {cat.seat_types[t].seat_type : t \in screen_seats}
        last(label) == Max({t \in screen_seats : cat.seat_types[t].seat_type = label})
        seats(t) == {i \in 1..Len(cat.seats) : cat.seats[i].type = t}
        values(i) == [id |-> i, seat_number |-> cat.seats[i].seat_number,
                      row |-> cat.seats[i].row, col |-> cat.seats[i].col]
    IN [label \in labels |->
          LET ids == seats(last(label))
          IN [rows |-> IF ids = {} THEN 0 ELSE Max({cat.seats[i].row : i \in ids}),
              columns |-> IF ids = {} THEN 0 ELSE Max({cat.seats[i].col : i \in ids}),
              seats |-> [n \in 1..Cardinality(ids) |-> values(ById(ids)[n])]]]

get_show_seat_layout(screen_id) ==
    IF LayoutKey(screen_id) \in DOMAIN cache
    THEN cache[LayoutKey(screen_id)]
    ELSE LayoutQuery(catalog, screen_id)

\* the cache after get_show_seat_layout: a miss stores the computed layout
CacheAfterLayout(screen_id) ==
    IF LayoutKey(screen_id) \in DOMAIN cache
    THEN cache
    ELSE Merge(cache, [k \in {LayoutKey(screen_id)} |-> LayoutQuery(catalog, screen_id)])

\* seat_types of the requests to ScreenViewSet.create: two well-formed
\* lists, a list with one label twice, an order outside the list, an order
\* given twice, an order of 0, a negative order, negative rows and columns
SeatTypeLists ==
    {<<[seat_type |-> "PLATINUM", rows |-> 1, columns |-> 2, order |-> 1]>>,
     <<[seat_type |-> "GOLD", rows |-> 2, columns |-> 2, order |-> 2],
       [seat_type |-> "PLATINUM", rows |-> 1, columns |-> 2, order |-> 1]>>,
     <<[seat_type |-> "GOLD", rows |-> 1, columns |-> 1, order |-> 1],
       [seat_type |-> "GOLD", rows |-> 1, columns |-> 2, order |-> 2]>>,
     <<[seat_type |-> "PLATINUM", rows |-> 1, columns |-> 1, order |-> 2]>>,
     <<[seat_type |-> "PLATINUM", rows |-> 1, columns |-> 1, order |-> 1],
       [seat_type |-> "GOLD", rows |-> 1, columns |-> 1, order |-> 1]>>,
     <<[seat_type |-> "SILVER", rows |-> 1, columns |-> 1, order |-> 0],
       [seat_type |-> "GOLD", rows |-> 1, columns |-> 1, order |-> 1]>>,
     <<[seat_type |-> "PLATINUM", rows |-> 1, columns |-> 1, order |-> -1],
       [seat_type |-> "SILVER", rows |-> 1, columns |-> 1, order |-> 2]>>,
     <<[seat_type |-> "GOLD", rows |-> -1, columns |-> -1, order |-> 1]>>}

\* ScreenViewSet.create: the IndexError of order_seat_types and the KeyError
\* create_screen_with_seats raises on a {} left in the list undo the
\* transaction
ScreenViewSet_create(data) ==
    /\ admin.pc # "saving"
    /\ Len(catalog.screens) < Len(InitialScreens) + MaxScreens
    /\ LET ordered == order_seat_types(data.seat_types)
           raised == \/ ordered.raised
                     \/ \E k \in 1..Len(ordered.list) : DOMAIN ordered.list[k] = {}
       IN IF raised
          THEN /\ catalog' = catalog
               /\ admin' = [pc |-> "error", data |-> data]
          ELSE /\ catalog' = create_screen_with_seats(catalog, data.screen_number,
                                                      ordered.list)
               /\ admin' = [pc |-> "created", data |-> data]
    /\ UNCHANGED <<now, cache, bookings, booked_show_detail, pc, req, err, total, vcall>>

NoLayoutCall == [first |-> <<>>, calls |-> 0]

\* get_show_seat_layout(screen_id); first keeps what the first call for each
\* screen returned, hit tells whether the cache held the key
CallLayout(screen_id) ==
    LET before == IF vcall = NoCall THEN NoLayoutCall ELSE vcall
        layout == get_show_seat_layout(screen_id)
    IN /\ before.calls < MaxLayoutCalls
       /\ vcall' = [screen_id |-> screen_id, result |-> layout,
                    hit |-> LayoutKey(screen_id) \in DOMAIN cache,
                    first |-> IF screen_id \in DOMAIN before.first THEN before.first
                              ELSE Merge(before.first, [k \in {screen_id} |-> layout]),
                    calls |-> before.calls + 1]
       /\ cache' = CacheAfterLayout(screen_id)
       /\ UNCHANGED <<now, bookings, booked_show_detail, pc, req, err, total, catalog, admin>>

NextL ==
    \/ \E seat_types \in SeatTypeLists :
          ScreenViewSet_create([screen_number |-> Len(catalog.screens) + 1,
                                seat_types |-> seat_types])
    \/ \E screen_id \in 1..Len(catalog.screens) : CallLayout(screen_id)
    \/ \E k \in DOMAIN cache : CacheExpire(k)

SpecL == Init /\ [][NextL]_vars

-----------------------------------------------------------------------------
(* Creation of a show: ShowDetailViewSet has no create of its own, the      *)
(* inherited one validates the data and calls ShowDetailSerializer.save,    *)
(* whose inserts are separate statements with no transaction around them.   *)

ShowDates == Today..(Today + MaxSpan)

\* labels of the seat types of a screen, in id order
ScreenLabels(cat, screen) ==
    LET types == ById({t \in 1..Len(cat.seat_types) : cat.seat_types[t].screen = screen})
    IN [k \in 1..Len(types) |-> cat.seat_types[types[k]].seat_type]

\* show_prices of a request: none, or one price for each label of the screen
ShowPriceLists(cat, screen) ==
    {<<>>, [k \in 1..Len(ScreenLabels(cat, screen)) |->
              [seat_type |-> ScreenLabels(cat, screen)[k], price |-> k]]}

ShowRequests ==
    {data \in [screen : 1..Len(catalog.screens), start_time : {11},
               start_date : ShowDates, end_date : ShowDates,
               show_prices : UNION {ShowPriceLists(catalog, sc) :
                                      sc \in 1..Len(catalog.screens)}] :
        data.show_prices \in ShowPriceLists(catalog, data.screen)}

\* ShowDetailSerializer.validate, then the ShowDetail.objects.create of save
ShowDetailViewSet_create(data) ==
    /\ admin.pc # "saving"
    /\ Len(catalog.shows) < Cardinality(Shows) + MaxShows
    /\ IF data.start_date > data.end_date
       THEN /\ catalog' = catalog
            /\ admin' = [pc |-> "rejected", data |-> data, show |-> 0,
                         prices |-> 0, rows |-> 0]
       ELSE /\ catalog' = AddShowDetail(catalog, data)
            /\ admin' = [pc |-> "saving", data |-> data, show |-> Len(catalog.shows) + 1,
                         prices |-> 0, rows |-> 0]
    /\ UNCHANGED <<now, cache, bookings, booked_show_detail, pc, req, err, total, vcall>>

\* one turn of the loop over show_prices
CreateShowSeatPrice ==
    /\ admin.pc = "saving"
    /\ admin.prices < Len(admin.data.show_prices)
    /\ catalog' = AddShowSeatPrice(catalog, admin.show,
                                   admin.data.show_prices[admin.prices + 1])
    /\ admin' = [admin EXCEPT !.prices = @ + 1]
    /\ UNCHANGED <<now, cache, bookings, booked_show_detail, pc, req, err, total, vcall>>

\* one turn of the loop over the days of the range
CreateBookedShowDetail ==
    /\ admin.pc = "saving"
    /\ admin.prices = Len(admin.data.show_prices)
    /\ admin.rows < DayCount(admin.data.start_date, admin.data.end_date)
    /\ booked_show_detail' =
          Merge(booked_show_detail,
                [k \in {<<admin.show, admin.data.start_date + admin.rows>>} |->
                    catalog.shows[admin.show].available_seats])
    /\ admin' = [admin EXCEPT !.rows = @ + 1]
    /\ UNCHANGED <<now, cache, bookings, pc, req, err, total, vcall, catalog>>

\* save returns
ReturnSaved ==
    /\ admin.pc = "saving"
    /\ admin.prices = Len(admin.data.show_prices)
    /\ admin.rows >= DayCount(admin.data.start_date, admin.data.end_date)
    /\ admin' = [admin EXCEPT !.pc = "done"]
    /\ UNCHANGED <<now, cache, bookings, booked_show_detail, pc, req, err, total, vcall,
                   catalog>>

\* the next objects.create of save raises: the rows inserted so far stay
CreateRaises ==
    /\ admin.pc = "saving"
    /\ \/ admin.prices < Len(admin.data.show_prices)
       \/ admin.rows < DayCount(admin.data.start_date, admin.data.end_date)
    /\ admin' = [admin EXCEPT !.pc = "failed"]
    /\ UNCHANGED <<now, cache, bookings, booked_show_detail, pc, req, err, total, vcall,
                   catalog>>

NextS ==
    \/ \E data \in ShowRequests : ShowDetailViewSet_create(data)
    \/ CreateShowSeatPrice
    \/ CreateBookedShowDetail
    \/ ReturnSaved
    \/ CreateRaises

SpecS == Init /\ [][NextS]_vars

-----------------------------------------------------------------------------
(* Properties of the booking handlers                                       *)

Finished(p) == pc[p] \in {"committed", "rejected"}
PreCheckErrors == {"invalid_seat_count", "past_show", "booking_window_expired"}
SeatIds(seats) == {Pk(x) : x \in Range(seats)}

\* rows of the Booking table for the key (show, show_date)
BookingsOf(show, show_date) ==
    {i \in 1..Len(bookings) :
        bookings[i].showtime = show /\ bookings[i].show_date = show_date}

\* seats held by the Bookings of the key (show, show_date)
HeldSeats(show, show_date) == UNION {bookings[i].seats : i \in BookingsOf(show, show_date)}

\* C1: no seat belongs to two Bookings of one (show, show_date): a booking
\* request never adds a Booking holding a seat an earlier Booking of its key
\* holds.
NoDoubleBooking ==
    \A i, j \in 1..Len(bookings) :
        (/\ i < j
         /\ bookings[j].by # 0
         /\ bookings[i].showtime = bookings[j].showtime
         /\ bookings[i].show_date = bookings[j].show_date)
        => bookings[i].seats \cap bookings[j].seats = {}

\* two API requests for seats {1,2} and {2,3} of tomorrow's show 1, both
\* finished, no other Booking of the key touching seats 1, 2, 3
OverlapPair(p, q) ==
    /\ p # q /\ Finished(p) /\ Finished(q)
    /\ req[p] = [path |-> "api", show |-> 1, date |-> Tomorrow,
                 seats |-> <<PyInt(1), PyInt(2)>>]
    /\ req[q] = [path |-> "api", show |-> 1, date |-> Tomorrow,
                 seats |-> <<PyInt(2), PyInt(3)>>]
    /\ \A i \in BookingsOf(1, Tomorrow) :
          bookings[i].by \in {p, q} \/ bookings[i].seats \cap {1, 2, 3} = {}

\* C2: of two simultaneous requests for {A,B} and {B,C}, all free before,
\* exactly one ends committed and the other rejected with seats_unavailable,
\* and the availability read that follows shows exactly 2 seats consumed.
OverlapExactlyOne ==
    \A p, q \in Workers :
        OverlapPair(p, q) =>
            /\ \/ pc[p] = "committed" /\ pc[q] = "rejected" /\ err[q] = "seats_unavailable"
               \/ pc[q] = "committed" /\ pc[p] = "rejected" /\ err[p] = "seats_unavailable"
            /\ Cardinality(Seat \ get_available_seats(1, Tomorrow))
                 = 2 + Cardinality(UNION {bookings[i].seats :
                                    i \in {j \in BookingsOf(1, Tomorrow) :
                                             bookings[j].by \notin {p, q}}})

\* the request of worker p passes the rules before the availability rule, the
\* cache holds an entry for its key, and the entry has a requested seat that
\* a Booking of the key holds
CacheReportsHeldSeatFree(p) ==
    LET r == req[p]
        d == RequestDate(r)
    IN /\ PreCheck(r.seats, r.show, d, now) = "ok"
       /\ CacheKey(r.show, d) \in DOMAIN cache
       /\ \E x \in Range(r.seats) :
             Pk(x) \in cache[CacheKey(r.show, d)] /\ Pk(x) \in HeldSeats(r.show, d)

\* C3: the cache is never the final authority: a request for a seat the
\* cached entry reports free while a Booking of the key holds it is rejected
\* with seats_unavailable.
CacheNeverAuthoritative ==
    [][\A p \in Workers :
          (pc[p] = "received" /\ pc'[p] # "received" /\ CacheReportsHeldSeatFree(p))
          => (pc'[p] = "rejected" /\ err'[p] = "seats_unavailable")]_vars

\* C4: once a booking for (show, date) is made, get_available_seats(show,
\* date) returns no seat of that booking, an entry cached before included.
AvailabilityExcludesBooked ==
    \A i \in 1..Len(bookings) :
        get_available_seats(bookings[i].showtime, bookings[i].show_date)
            \cap bookings[i].seats = {}

\* seats of the Bookings the booking handlers made for the key
RequestedSeats(show, show_date) ==
    UNION {bookings[i].seats :
             i \in {j \in BookingsOf(show, show_date) : bookings[j].by # 0}}

\* C5: conservation: for every BookedShowDetail row, available_seats plus
\* the number of seats booked for its key is the total_seat of the screen.
Conservation ==
    \A k \in DOMAIN booked_show_detail :
        booked_show_detail[k] + Cardinality(RequestedSeats(k[1], k[2]))
            = TotalSeat(ShowDetail(k[1]).screen)

\* the seats worker p asks for are asked for by no other request of its key
\* and held by no Booking of its key that is not its own
DisjointFromOthers(p) ==
    /\ \A q \in Workers \ {p} :
          (pc[q] # "idle" /\ req[q].show = req[p].show /\ req[q].date = req[p].date)
          => SeatIds(req[q].seats) \cap SeatIds(req[p].seats) = {}
    /\ \A i \in BookingsOf(req[p].show, req[p].date) :
          bookings[i].by = p \/ bookings[i].seats \cap SeatIds(req[p].seats) = {}

\* C6: concurrent API requests for pairwise-disjoint free seats of one
\* (show, date), each passing the other rules, all end committed: none is
\* rejected because of another.
DisjointAllCommit ==
    \A p \in Workers :
        (/\ Finished(p)
         /\ req[p].path = "api"
         /\ err[p] \notin PreCheckErrors \cup {"seats_required"}
         /\ DisjointFromOthers(p))
        => pc[p] = "committed"

DisjointAllCommitWitness ==
    \E p, q \in Workers :
        /\ p # q
        /\ pc[p] = "committed" /\ pc[q] = "committed"
        /\ req[p].show = req[q].show /\ req[p].date = req[q].date
        /\ DisjointFromOthers(p) /\ DisjointFromOthers(q)
        \* the two overlapped in time: p arrived first and q committed first
        /\ p < q
        /\ \E i, j \in 1..Len(bookings) :
              i < j /\ bookings[i].by = q /\ bookings[j].by = p

\* C9: a booking attempt that ends rejected changes no persisted state: the
\* step that rejects it leaves the Booking and BookedShowDetail tables as
\* they are, and no Booking row of the attempt exists.
RejectedLeavesNoTrace ==
    [][\A p \in Workers :
          pc'[p] = "rejected" =>
            /\ pc[p] # "rejected" =>
                  (bookings' = bookings /\ booked_show_detail' = booked_show_detail)
            /\ \A i \in 1..Len(bookings') : bookings'[i].by # p]_vars

RejectedLeavesNoTraceWitness ==
    \E p, q \in Workers :
        /\ pc[p] = "rejected" /\ err[p] = "seats_unavailable"
        /\ pc[q] = "rejected" /\ err[q] = "invalid_seat_count"
        /\ Len(bookings) > 0

\* C13: a request whose show_date has no BookedShowDetail row (a date outside
\* the show's range) never commits: no worker ends committed for such a key
\* and no Booking of a handler exists for it.
NoSuchShowDateRefused ==
    /\ \A p \in Workers :
          pc[p] = "committed" => <<req[p].show, req[p].date>> \in DOMAIN booked_show_detail
    /\ \A i \in 1..Len(bookings) :
          bookings[i].by # 0 =>
             <<bookings[i].showtime, bookings[i].show_date>> \in DOMAIN booked_show_detail

\* C15: what get_available_seats computes on a cache miss (the value it
\* stores under the key) holds seats of the show's screen only, and with no
\* Booking in the table it has as many seats as the screen.
MissReturnsScreenSeats ==
    \A k \in DOMAIN cache :
        k[1] = "available_seats" =>
            LET screen == ShowDetail(k[2]).screen
            IN /\ cache[k] \subseteq ScreenSeats(screen)
               /\ bookings = <<>> => Cardinality(cache[k]) = TotalSeat(screen)

\* worker p has checked the booked seats of its key and not yet inserted
BetweenCheckAndInsert(p) == pc[p] \in {"validated", "committing"}

\* C18: commits for one (show, date) are mutually exclusive: while an attempt
\* is between its check of the booked seats and its insert, no other attempt
\* for the same key performs its own check or its own insert.
CommitMutualExclusion ==
    [][\A p, q \in Workers :
          (/\ p # q
           /\ BetweenCheckAndInsert(p)
           /\ req'[q].show = req[p].show /\ req'[q].date = req[p].date)
          => /\ ~(/\ pc[q] = "received"
                  /\ \/ pc'[q] = "validated"
                     \/ pc'[q] = "rejected" /\ err'[q] = "seats_unavailable")
             /\ ~(pc[q] = "committing" /\ pc'[q] = "committed")]_vars

HandlerSteps ==
    {<<"idle", "received">>, <<"idle", "rejected">>, <<"received", "validated">>,
     <<"received", "rejected">>, <<"validated", "committing">>,
     <<"committing", "committed">>}

\* C19: every attempt goes received, validated, committing, then committed,
\* or ends rejected: its Booking is inserted only by the step from committing
\* to committed, after validate_booking_request passed and with the total
\* price computed for its seats; an attempt that failed validation is never
\* validated, committing or committed.
AttemptOrder ==
    /\ [][\A p \in Workers :
             /\ pc'[p] # pc[p] => <<pc[p], pc'[p]>> \in HandlerSteps
             /\ (\E i \in 1..Len(bookings') :
                    bookings'[i].by = p /\ (i > Len(bookings) \/ bookings[i] # bookings'[i]))
                => /\ pc[p] = "committing" /\ pc'[p] = "committed"
                   /\ bookings'[Len(bookings')].total_amount
                        = calculate_total_price(req[p].seats, req[p].show)]_vars
    /\ [](\A p \in Workers :
            /\ pc[p] \in {"validated", "committing", "committed"} => err[p] = "none"
            /\ (\E i \in 1..Len(bookings) : bookings[i].by = p) => pc[p] = "committed")

AttemptOrderWitness ==
    \E p, q \in Workers :
        /\ pc[p] = "committed"
        /\ \E i \in 1..Len(bookings) : bookings[i].by = p /\ bookings[i].total_amount = 3
        /\ pc[q] = "rejected" /\ err[q] = "seats_unavailable"

\* C21: every Booking a booking handler persisted holds between 1 and 10
\* distinct seats, whatever the request: seat lists of any length, lists that
\* repeat an id, the empty selection posted to book_seats.
BookingSeatCount ==
    \A i \in 1..Len(bookings) :
        bookings[i].by # 0 =>
            /\ MIN_SEATS_PER_BOOKING <= Cardinality(bookings[i].seats)
            /\ Cardinality(bookings[i].seats) <= MAX_SEATS_PER_BOOKING

BookingSeatCountWitness ==
    \E p \in Workers :
        /\ pc[p] = "committed"
        /\ Len(req[p].seats) = MAX_SEATS_PER_BOOKING
        /\ \E i \in 1..Len(bookings) :
              bookings[i].by = p /\ Cardinality(bookings[i].seats) = MAX_SEATS_PER_BOOKING - 1

\* C22: each (show, date) key is an independent inventory: a commit for one
\* key changes neither the seats get_available_seats reports nor the
\* available_seats of any other key, and the seats of a Booking made for one
\* date are shown as free for every other date of the show on which no
\* Booking holds them.
KeyIndependence ==
    /\ [][\A p \in Workers :
             (pc[p] = "committing" /\ pc'[p] = "committed") =>
                \A k \in DOMAIN booked_show_detail :
                    k # <<req[p].show, req[p].date>> =>
                       /\ booked_show_detail'[k] = booked_show_detail[k]
                       /\ (get_available_seats(k[1], k[2]))'
                            = get_available_seats(k[1], k[2])]_vars
    /\ [](\A i \in 1..Len(bookings) :
            bookings[i].by # 0 =>
               \A k \in DOMAIN booked_show_detail :
                  (k[1] = bookings[i].showtime /\ k[2] # bookings[i].show_date) =>
                     (bookings[i].seats \ HeldSeats(k[1], k[2]))
                        \cap ShowBookedSeats(k[1]) = {})

\* C23: the validator enforces the advance-booking window: a request whose
\* show_date is more than BOOKING_WINDOW_DAYS days after today is rejected
\* by validate_booking_request and no Booking is created for it.
AdvanceWindowEnforced ==
    \A p \in Workers :
        (/\ pc[p] \notin {"idle", "received"}
         /\ req[p].date > DateOf(now) + BOOKING_WINDOW_DAYS)
        => /\ pc[p] = "rejected"
           /\ \A i \in 1..Len(bookings) : bookings[i].by # p

-----------------------------------------------------------------------------
(* Properties of validate_booking_request                                   *)

Called == vcall # NoCall

\* rule i of the validator, read on the arguments of the recorded call
RuleViolated(i, c) ==
    CASE i = 1 -> Len(c.seats) < MIN_SEATS_PER_BOOKING \/ Len(c.seats) > MAX_SEATS_PER_BOOKING
      [] i = 2 -> c.show_date < DateOf(c.at)
      [] i = 3 -> Combine(c.show_date, ShowDetail(c.show).start_time) - c.at
                     < MIN_BOOKING_HOURS_BEFORE
      [] i = 4 -> \E j \in 1..Len(c.seats) : ~Contains(c.available, c.seats[j])

RuleError(i) ==
    CASE i = 1 -> "invalid_seat_count"
      [] i = 2 -> "past_show"
      [] i = 3 -> "booking_window_expired"
      [] i = 4 -> "seats_unavailable"

Lowest(S) == CHOOSE i \in S : \A j \in S : i <= j

\* C7: the validator reports the error of the lowest-numbered rule the
\* request violates (seat count, past date, cutoff, availability), and no
\* error when it violates none.
ValidatorOrdering ==
    Called =>
        LET violated == {i \in 1..4 : RuleViolated(i, vcall)}
        IN vcall.result = IF violated = {} THEN "ok" ELSE RuleError(Lowest(violated))

ValidatorOrderingWitness ==
    /\ Called
    /\ RuleViolated(1, vcall) /\ ~RuleViolated(2, vcall) /\ RuleViolated(3, vcall)
    /\ vcall.result = "invalid_seat_count"

\* C8: a request with fewer than 1 or more than 10 seat ids is rejected with
\* invalid_seat_count whatever its date and seats, and a request with 1 to 10
\* seat ids never is.
SeatCountBounds ==
    Called => (vcall.result = "invalid_seat_count"
                 <=> (Len(vcall.seats) < 1 \/ Len(vcall.seats) > 10))

SeatCountBoundsWitness ==
    /\ Called
    /\ Len(vcall.seats) = 11
    /\ vcall.show_date < DateOf(vcall.at)
    /\ vcall.result = "invalid_seat_count"

\* C10: a request with a valid seat count and a date not in the past is
\* rejected with booking_window_expired exactly when the show starts less
\* than 2 hours after now; a show starting exactly 2 hours from now passes.
BookingWindow ==
    (/\ Called
     /\ 1 <= Len(vcall.seats) /\ Len(vcall.seats) <= 10
     /\ vcall.show_date >= DateOf(vcall.at))
    => (vcall.result = "booking_window_expired"
          <=> Combine(vcall.show_date, ShowDetail(vcall.show).start_time) - vcall.at < 2)

BookingWindowWitness ==
    /\ Called
    /\ 1 <= Len(vcall.seats) /\ Len(vcall.seats) <= 10
    /\ vcall.show_date = DateOf(vcall.at)
    /\ Combine(vcall.show_date, ShowDetail(vcall.show).start_time) - vcall.at = 2
    /\ vcall.result = "ok"

\* C11: a request with a valid seat count is rejected with past_show exactly
\* when its show_date is before today's date; a show_date of today or later
\* never is.
PastShowRule ==
    (/\ Called
     /\ 1 <= Len(vcall.seats) /\ Len(vcall.seats) <= 10)
    => (vcall.result = "past_show" <=> vcall.show_date < DateOf(vcall.at))

PastShowRuleWitness ==
    /\ Called
    /\ Len(vcall.seats) = 2
    /\ vcall.show_date = DateOf(vcall.at) - 1
    /\ vcall.result = "past_show"

\* the recorded call asks for 1 to 10 seats of tomorrow's show, all int ids
\* of seats no Booking of the key holds
TomorrowFreeSeats(c) ==
    /\ 1 <= Len(c.seats) /\ Len(c.seats) <= 10
    /\ \A j \in 1..Len(c.seats) :
          c.seats[j][1] = "int" /\ c.seats[j][2] \in Seat \ c.booked
    /\ c.show_date = DateOf(c.at) + 1

-----------------------------------------------------------------------------
(* Properties of calculate_total_price                                      *)

\* the price of the seat type times the number of requested seats of it
TypeCharge(c, seat_type) ==
    LET n == Cardinality({s \in SeatIds(c.seats) : SeatType(s) = seat_type})
    IN IF n = 0 THEN 0 ELSE n * c.prices[seat_type]

EveryTypePriced(c) == \A s \in SeatIds(c.seats) : SeatType(s) \in DOMAIN c.prices

\* C14: calculate_total_price returns the sum, over every requested seat, of
\* the price configured for the seat's type, for every seat list and price
\* table in which every requested seat's type has a price (a seat id given
\* twice is one requested seat).
PriceIsSum ==
    (Called /\ EveryTypePriced(vcall))
    => vcall.result = TypeCharge(vcall, "PLATINUM") + TypeCharge(vcall, "GOLD")
                        + TypeCharge(vcall, "SILVER")

PriceIsSumWitness ==
    /\ Called
    /\ vcall.seats = <<PyInt(1), PyInt(5)>>
    /\ vcall.prices = [PLATINUM |-> 2, GOLD |-> 1]
    /\ vcall.result = 3

\* C24: calculate_total_price fails with MissingPrice when the type of a
\* requested seat has no price in the show's table: it never returns a total
\* that counts such a seat as 0.
MissingPriceRaised ==
    (Called /\ ~EveryTypePriced(vcall)) => vcall.raised = "MissingPrice"

-----------------------------------------------------------------------------
(* Properties of get_show_seat_layout                                       *)

\* seat types (ScreenSeatTypesMapping rows) of the screen with the label
TypesLabelled(screen_id, label) ==
    {t \in 1..Len(catalog.seat_types) :
        catalog.seat_types[t].screen = screen_id /\ catalog.seat_types[t].seat_type = label}

-----------------------------------------------------------------------------
(* Properties of the creation of a show                                     *)

RowsOf(show) == {k \in DOMAIN booked_show_detail : k[1] = show}

\* C16: a created show has exactly one BookedShowDetail row per date of
\* [start_date, end_date], both ends included (end - start + 1 rows created,
\* none outside the range), each with the total_seat of the screen; a request
\* with start_date after end_date is rejected and creates nothing.
OneRowPerDate ==
    /\ [](admin.pc = "done" =>
           LET data == admin.data
           IN /\ RowsOf(admin.show) =
                    {<<admin.show, date>> : date \in data.start_date..data.end_date}
              /\ admin.rows = data.end_date - data.start_date + 1
              /\ \A k \in RowsOf(admin.show) :
                    booked_show_detail[k] = catalog.screens[data.screen].total_seat)
    /\ [](admin.pc \in {"saving", "done", "failed", "rejected"} =>
           (admin.pc = "rejected" <=> admin.data.start_date > admin.data.end_date))
    /\ [][(admin' # admin /\ admin'.pc = "rejected") =>
             (catalog' = catalog /\ booked_show_detail' = booked_show_detail)]_vars

OneRowPerDateWitness ==
    /\ admin.pc = "done"
    /\ admin.data.end_date = admin.data.start_date + 2
    /\ Cardinality(RowsOf(admin.show)) = 3

\* C20: the creation of a show is all-or-nothing: when an insert of a
\* ShowSeatPrice or a BookedShowDetail row fails, no ShowDetail, ShowSeatPrice
\* or BookedShowDetail row of that show remains.
ShowCreationAtomic ==
    admin.pc = "failed" =>
        /\ Len(catalog.shows) < admin.show
        /\ \A i \in 1..Len(catalog.prices) : catalog.prices[i].show_detail # admin.show
        /\ RowsOf(admin.show) = {}

-----------------------------------------------------------------------------
(* Properties of the creation of a screen                                   *)

\* the screen the last request to ScreenViewSet.create persisted
CreatedScreen == Len(catalog.screens)

\* Seat rows of the screen
SeatsOfScreen(screen) ==
    {i \in 1..Len(catalog.seats) : catalog.seat_types[catalog.seats[i].type].screen = screen}

\* ScreenSeatTypesMapping rows of the screen, in id order
TypesOfScreen(screen) ==
    ById({t \in 1..Len(catalog.seat_types) : catalog.seat_types[t].screen = screen})

RECURSIVE RowsTimesColumns(_)
RowsTimesColumns(seat_types) ==
    IF seat_types = <<>> THEN 0
    ELSE Head(seat_types).rows * Head(seat_types).columns
            + RowsTimesColumns(Tail(seat_types))

RECURSIVE RowsOfTypes(_)
RowsOfTypes(seat_types) ==
    IF seat_types = <<>> THEN 0
    ELSE Head(seat_types).rows + RowsOfTypes(Tail(seat_types))

\* C25: after create_screen_with_seats the screen's total_seat is the sum of
\* rows x columns over the submitted seat types and is the number of Seat
\* rows created for the screen, for every list of seat types.
TotalSeatIsSeatCount ==
    admin.pc = "created" =>
        /\ catalog.screens[CreatedScreen].total_seat
              = RowsTimesColumns(admin.data.seat_types)
        /\ catalog.screens[CreatedScreen].total_seat
              = Cardinality(SeatsOfScreen(CreatedScreen))

\* C26: the rows of a created screen are contiguous across its seat types in
\* order: the row values of its seats are 1..R, R the sum of the rows of its
\* types, the k-th type taking the rows after those of the types before it,
\* and the rows value get_show_seat_layout reports for a type is its highest
\* such row.
RowsContiguous ==
    admin.pc = "created" =>
        LET types == TypesOfScreen(CreatedScreen)
            ordered == order_seat_types(admin.data.seat_types).list
            before(k) == RowsOfTypes(SubSeq(ordered, 1, k - 1))
            rows(t) == {catalog.seats[i].row :
                          i \in {j \in SeatsOfScreen(CreatedScreen) : catalog.seats[j].type = t}}
        IN /\ {catalog.seats[i].row : i \in SeatsOfScreen(CreatedScreen)}
                 = 1..RowsOfTypes(ordered)
           /\ \A k \in 1..Len(types) :
                 /\ rows(types[k]) = (before(k) + 1)..(before(k) + ordered[k].rows)
                 /\ LayoutQuery(catalog, CreatedScreen)[ordered[k].seat_type].rows
                      = before(k) + ordered[k].rows

\* C27: a screen is persisted only when the order values of the submitted
\* seat types are a permutation of 1..N, and its types are then created in
\* ascending order; a duplicate, a gap, an order of 0 or a negative order
\* never gives a persisted screen.
OrderIsPermutation ==
    admin.pc = "created" =>
        LET seat_types == admin.data.seat_types
            n == Len(seat_types)
            types == TypesOfScreen(CreatedScreen)
        IN /\ {seat_types[k].order : k \in 1..n} = 1..n
           /\ Len(types) = n
           /\ \A k \in 1..n :
                 catalog.seat_types[types[seat_types[k].order]].seat_type
                   = seat_types[k].seat_type

====
